---- MODULE Spec2Model ----
(***************************************************************************)
(* Task / time tracking services of saroopvs/task_management.              *)
(*                                                                         *)
(* The state is the relational store defined by V1___initial_schema.sql    *)
(* (tables tasks and work_entries, their SERIAL sequences, the database    *)
(* clock read by NOW()) together with the outcome of the service call that *)
(* returned most recently.  Every service function of taskService.js and   *)
(* workEntryService.js awaits exactly one SQL statement, so one call is    *)
(* one atomic step of the store followed by the function's own handling of *)
(* the rows it got back.                                                   *)
(***************************************************************************)
EXTENDS Integers, Sequences, FiniteSets, TLC

VARIABLES tasks, work_entries, tasks_id_seq, work_entries_id_seq, now, last

vars == <<tasks, work_entries, tasks_id_seq, work_entries_id_seq, now, last>>
tables == <<tasks, work_entries>>

(***************************************************************************)
(* Bounds of the model.                                                    *)
(***************************************************************************)
\* Largest value the tasks id sequence hands out.
MaxTaskId == 2
\* Largest value the work_entries id sequence hands out.
MaxEntryId == 2
\* Largest reading of the database clock.
MaxTime == 2

(***************************************************************************)
(* SQL values: a nullable value is NULL or Some(v).                        *)
(***************************************************************************)
NULL == <<>>
Some(v) == <<v>>
IsNull(x) == x = NULL
Val(x) == x[1]

\* SQL's "a = b" in a WHERE clause: never true when either side is NULL.
SqlEq(a, b) == ~IsNull(a) /\ ~IsNull(b) /\ Val(a) = Val(b)

(***************************************************************************)
(* JavaScript values the service functions return or throw.                *)
(***************************************************************************)
JsUndefined == [t |-> "undefined"]
JsFalse == [t |-> "boolean", v |-> FALSE]
JsNumber(n) == [t |-> "number", v |-> n]
JsObject(r) == [t |-> "object", v |-> r]
\* An array of rows in database-determined order: the set of its rows.
JsArray(S) == [t |-> "array", v |-> S]
JsThrow(e) == [t |-> "throw", v |-> e]

(***************************************************************************)
(* Inputs of the callers.                                                  *)
(***************************************************************************)
Names == {"", "X"}
NameArgs == {NULL} \cup {Some(n) : n \in Names}
TaskIdArgs == {NULL} \cup {Some(i) : i \in 1..MaxTaskId}
EntryIdArgs == {NULL} \cup {Some(i) : i \in 1..MaxEntryId}

Call(op, arg, ret) == [op |-> op, arg |-> arg, ret |-> ret]

(***************************************************************************)
(* Schema: V1___initial_schema.sql                                         *)
(***************************************************************************)
\* NewTaskRow with the column default the wrong way round.
NewTaskRow_DefaultTrue(id, name) == [id |-> id, name |-> name, completed |-> TRUE]

\* A row of tasks as INSERT INTO tasks (name) builds it: completed takes the
\* column default.
NewTaskRow(id, name) == [id |-> id, name |-> name, completed |-> FALSE]

\* NewWorkEntryRow with NOW() written to finished_on as well.
NewWorkEntryRow_Finished(id, taskId, startedOn) ==
  [id |-> id, task_id |-> taskId, started_on |-> startedOn, finished_on |-> Some(startedOn)]

\* A row of work_entries as INSERT INTO work_entries (task_id, started_on)
\* builds it: finished_on has no default and stays NULL.
NewWorkEntryRow(id, taskId, startedOn) ==
  [id |-> id, task_id |-> taskId, started_on |-> startedOn, finished_on |-> NULL]

\* tasks.name with a CHECK that also rejects the empty string.
TasksNotNullOk_NonEmpty(name) == ~IsNull(name) /\ Val(name) # ""

\* tasks.name is NOT NULL.
TasksNotNullOk(name) == ~IsNull(name)

\* work_entries.task_id without its REFERENCES clause.
WorkEntriesFkOk_NoReference(taskId) == TRUE

\* work_entries.task_id REFERENCES tasks(id): NULL passes, any other value
\* must be the id of a row of tasks.
WorkEntriesFkOk(taskId) == IsNull(taskId) \/ \E r \in tasks : r.id = Val(taskId)

\* The empty schema with the tasks id sequence starting at 0.
Init_SeqFromZero ==
  /\ tasks = {}
  /\ work_entries = {}
  /\ tasks_id_seq = 0
  /\ work_entries_id_seq = 1
  /\ now = 0
  /\ last = Call("none", NULL, JsUndefined)

Init ==
  /\ tasks = {}
  /\ work_entries = {}
  /\ tasks_id_seq = 1
  /\ work_entries_id_seq = 1
  /\ now = 0
  /\ last = Call("none", NULL, JsUndefined)

(***************************************************************************)
(* taskService.js                                                          *)
(***************************************************************************)
\* An UPDATE that sets completed on the matching rows and clears it on the
\* others.
completeByIdUpdate_OnlyOne(rows, id) ==
  {[r EXCEPT !.completed = SqlEq(Some(r.id), id)] : r \in rows}

\* UPDATE tasks SET completed = true WHERE id = ${id}, as a function of the
\* rows of tasks: the table that the statement of completeById leaves.
completeByIdUpdate(rows, id) ==
  {IF SqlEq(Some(r.id), id) THEN [r EXCEPT !.completed = TRUE] ELSE r : r \in rows}

\* completeById that flips the flag instead of setting it.
completeById_Toggle(id) ==
  /\ tasks' = {IF SqlEq(Some(r.id), id) THEN [r EXCEPT !.completed = ~r.completed] ELSE r :
                 r \in tasks}
  /\ last' = Call("completeById", id, JsUndefined)
  /\ UNCHANGED <<work_entries, tasks_id_seq, work_entries_id_seq, now>>

\* completeById whose UPDATE has lost its WHERE clause.
completeById_NoWhere(id) ==
  /\ tasks' = {[r EXCEPT !.completed = TRUE] : r \in tasks}
  /\ last' = Call("completeById", id, JsUndefined)
  /\ UNCHANGED <<work_entries, tasks_id_seq, work_entries_id_seq, now>>

\* completeById that removes the row instead of flagging it.
completeById_Delete(id) ==
  /\ tasks' = {r \in tasks : ~SqlEq(Some(r.id), id)}
  /\ last' = Call("completeById", id, JsUndefined)
  /\ UNCHANGED <<work_entries, tasks_id_seq, work_entries_id_seq, now>>

\* completeById that also closes the open work entries of the task.
completeById_ClosesEntries(id) ==
  /\ tasks' = {IF SqlEq(Some(r.id), id) THEN [r EXCEPT !.completed = TRUE] ELSE r : r \in tasks}
  /\ work_entries' = {IF SqlEq(r.task_id, id) /\ IsNull(r.finished_on)
                        THEN [r EXCEPT !.finished_on = Some(now)] ELSE r :
                        r \in work_entries}
  /\ last' = Call("completeById", id, JsUndefined)
  /\ UNCHANGED <<tasks_id_seq, work_entries_id_seq, now>>

\* UPDATE tasks SET completed = true WHERE id = ${id}
completeById(id) ==
  /\ tasks' = {IF SqlEq(Some(r.id), id) THEN [r EXCEPT !.completed = TRUE] ELSE r : r \in tasks}
  /\ last' = Call("completeById", id, JsUndefined)
  /\ UNCHANGED <<work_entries, tasks_id_seq, work_entries_id_seq, now>>

\* create with a try/catch around the statement that drops the error.
create_CatchesError(name) ==
  /\ tasks_id_seq <= MaxTaskId
  /\ tasks_id_seq' = tasks_id_seq + 1
  /\ IF TasksNotNullOk(name)
       THEN /\ tasks' = tasks \cup {NewTaskRow(tasks_id_seq, Val(name))}
            /\ last' = Call("create", name, JsUndefined)
       ELSE /\ tasks' = tasks
            /\ last' = Call("create", name, JsUndefined)
  /\ UNCHANGED <<work_entries, work_entries_id_seq, now>>

\* INSERT INTO tasks (name) VALUES (${name}).  The id default draws from the
\* sequence before the row is checked, so a rejected row uses up an id.
create(name) ==
  /\ tasks_id_seq <= MaxTaskId
  /\ tasks_id_seq' = tasks_id_seq + 1
  /\ IF TasksNotNullOk(name)
       THEN /\ tasks' = tasks \cup {NewTaskRow(tasks_id_seq, Val(name))}
            /\ last' = Call("create", name, JsUndefined)
       ELSE /\ tasks' = tasks
            /\ last' = Call("create", name, JsThrow("not_null_violation"))
  /\ UNCHANGED <<work_entries, work_entries_id_seq, now>>

\* findAllNonCompletedTasks whose SELECT has lost its WHERE clause.
findAllNonCompletedTasks_All == JsArray(tasks)

\* SELECT * FROM tasks WHERE completed = false
findAllNonCompletedTasks == JsArray({r \in tasks : r.completed = FALSE})

\* findById that signals absence with false, as findCurrentWorkEntry does.
findById_ReturnsFalse(id) ==
  LET rows == {r \in tasks : SqlEq(Some(r.id), id)}
  IN  IF rows # {} THEN JsObject(CHOOSE r \in rows : TRUE) ELSE JsFalse

\* findById whose SELECT has lost its WHERE clause.
findById_AnyRow(id) ==
  LET rows == tasks
  IN  IF rows # {} THEN JsObject(CHOOSE r \in rows : TRUE)
      ELSE JsObject([id |-> 0, name |-> "Unknown"])

\* SELECT * FROM tasks WHERE id = ${id}, then rows[0] or the placeholder.
\* id is the primary key, so at most one row matches.
findById(id) ==
  LET rows == {r \in tasks : SqlEq(Some(r.id), id)}
  IN  IF rows # {} THEN JsObject(CHOOSE r \in rows : TRUE)
      ELSE JsObject([id |-> 0, name |-> "Unknown"])

Do_findAllNonCompletedTasks ==
  /\ last' = Call("findAllNonCompletedTasks", NULL, findAllNonCompletedTasks)
  /\ UNCHANGED <<tasks, work_entries, tasks_id_seq, work_entries_id_seq, now>>

Do_findById(id) ==
  /\ last' = Call("findById", id, findById(id))
  /\ UNCHANGED <<tasks, work_entries, tasks_id_seq, work_entries_id_seq, now>>

(***************************************************************************)
(* workEntryService.js                                                     *)
(***************************************************************************)
\* createWorkEntry that refuses to open a second entry for a task.
createWorkEntry_RefuseIfOpen(taskId) ==
  /\ work_entries_id_seq <= MaxEntryId
  /\ work_entries_id_seq' = work_entries_id_seq + 1
  /\ IF /\ WorkEntriesFkOk(taskId)
        /\ ~\E r \in work_entries : SqlEq(r.task_id, taskId) /\ IsNull(r.finished_on)
       THEN /\ work_entries' = work_entries \cup {NewWorkEntryRow(work_entries_id_seq, taskId, now)}
            /\ last' = Call("createWorkEntry", taskId, JsUndefined)
       ELSE /\ work_entries' = work_entries
            /\ last' = Call("createWorkEntry", taskId, JsThrow("unique_violation"))
  /\ UNCHANGED <<tasks, tasks_id_seq, now>>

\* createWorkEntry that binds a fixed task id instead of its argument.
createWorkEntry_FixedTask(taskId) ==
  /\ work_entries_id_seq <= MaxEntryId
  /\ work_entries_id_seq' = work_entries_id_seq + 1
  /\ IF WorkEntriesFkOk(Some(1))
       THEN /\ work_entries' = work_entries \cup {NewWorkEntryRow(work_entries_id_seq, Some(1), now)}
            /\ last' = Call("createWorkEntry", taskId, JsUndefined)
       ELSE /\ work_entries' = work_entries
            /\ last' = Call("createWorkEntry", taskId, JsThrow("foreign_key_violation"))
  /\ UNCHANGED <<tasks, tasks_id_seq, now>>

\* INSERT INTO work_entries (task_id, started_on) VALUES (${taskId}, NOW()).
\* As for tasks, the id is drawn from the sequence before the foreign key is
\* checked.
createWorkEntry(taskId) ==
  /\ work_entries_id_seq <= MaxEntryId
  /\ work_entries_id_seq' = work_entries_id_seq + 1
  /\ IF WorkEntriesFkOk(taskId)
       THEN /\ work_entries' = work_entries \cup {NewWorkEntryRow(work_entries_id_seq, taskId, now)}
            /\ last' = Call("createWorkEntry", taskId, JsUndefined)
       ELSE /\ work_entries' = work_entries
            /\ last' = Call("createWorkEntry", taskId, JsThrow("foreign_key_violation"))
  /\ UNCHANGED <<tasks, tasks_id_seq, now>>

\* findCurrentWorkEntry whose WHERE clause has lost "finished_on IS NULL".
findCurrentWorkEntry_AnyEntry(taskId) ==
  LET rows == {r \in work_entries : SqlEq(r.task_id, taskId)}
  IN  IF rows # {} THEN {JsObject(r) : r \in rows} ELSE {JsFalse}

\* SELECT * FROM work_entries WHERE task_id = ${taskId} AND finished_on IS NULL,
\* then rows[0] or false.  The statement has no ORDER BY: rows[0] is any of the
\* matching rows, so this is the set of values the call may return.
findCurrentWorkEntry(taskId) ==
  LET rows == {r \in work_entries : SqlEq(r.task_id, taskId) /\ IsNull(r.finished_on)}
  IN  IF rows # {} THEN {JsObject(r) : r \in rows} ELSE {JsFalse}

\* finishWorkEntry that writes NOW() to started_on instead of finished_on.
finishWorkEntry_WrongColumn(id) ==
  /\ work_entries' = {IF SqlEq(Some(r.id), id) THEN [r EXCEPT !.started_on = now] ELSE r :
                        r \in work_entries}
  /\ last' = Call("finishWorkEntry", id, JsUndefined)
  /\ UNCHANGED <<tasks, tasks_id_seq, work_entries_id_seq, now>>

\* finishWorkEntry whose UPDATE has lost its WHERE clause.
finishWorkEntry_NoWhere(id) ==
  /\ work_entries' = {[r EXCEPT !.finished_on = Some(now)] : r \in work_entries}
  /\ last' = Call("finishWorkEntry", id, JsUndefined)
  /\ UNCHANGED <<tasks, tasks_id_seq, work_entries_id_seq, now>>

\* finishWorkEntry that closes every open entry of the entry's task.
finishWorkEntry_WholeTask(id) ==
  /\ work_entries' =
       {IF \E e \in work_entries :
              SqlEq(Some(e.id), id) /\ (e.id = r.id \/ (SqlEq(r.task_id, e.task_id) /\ IsNull(r.finished_on)))
          THEN [r EXCEPT !.finished_on = Some(now)] ELSE r :
          r \in work_entries}
  /\ last' = Call("finishWorkEntry", id, JsUndefined)
  /\ UNCHANGED <<tasks, tasks_id_seq, work_entries_id_seq, now>>

\* finishWorkEntry that reopens an entry which is already closed.
finishWorkEntry_Toggle(id) ==
  /\ work_entries' = {IF SqlEq(Some(r.id), id)
                        THEN [r EXCEPT !.finished_on =
                                IF IsNull(r.finished_on) THEN Some(now) ELSE NULL]
                        ELSE r :
                        r \in work_entries}
  /\ last' = Call("finishWorkEntry", id, JsUndefined)
  /\ UNCHANGED <<tasks, tasks_id_seq, work_entries_id_seq, now>>

\* finishWorkEntry that writes time 0 instead of NOW().
finishWorkEntry_Epoch(id) ==
  /\ work_entries' = {IF SqlEq(Some(r.id), id) THEN [r EXCEPT !.finished_on = Some(0)] ELSE r :
                        r \in work_entries}
  /\ last' = Call("finishWorkEntry", id, JsUndefined)
  /\ UNCHANGED <<tasks, tasks_id_seq, work_entries_id_seq, now>>

\* finishWorkEntry whose UPDATE leaves a closed entry alone.
finishWorkEntry_OnlyIfOpen(id) ==
  /\ work_entries' = {IF SqlEq(Some(r.id), id) /\ IsNull(r.finished_on)
                        THEN [r EXCEPT !.finished_on = Some(now)] ELSE r :
                        r \in work_entries}
  /\ last' = Call("finishWorkEntry", id, JsUndefined)
  /\ UNCHANGED <<tasks, tasks_id_seq, work_entries_id_seq, now>>

\* UPDATE work_entries SET finished_on = NOW() WHERE id = ${id}
finishWorkEntry(id) ==
  /\ work_entries' = {IF SqlEq(Some(r.id), id) THEN [r EXCEPT !.finished_on = Some(now)] ELSE r :
                        r \in work_entries}
  /\ last' = Call("finishWorkEntry", id, JsUndefined)
  /\ UNCHANGED <<tasks, tasks_id_seq, work_entries_id_seq, now>>

\* SUM(finished_on - started_on) over a set of rows with finished_on set: NULL
\* over no rows.
RECURSIVE SumOfIntervals(_)
SumOfIntervals(rows) ==
  IF rows = {} THEN 0
  ELSE LET r == CHOOSE x \in rows : TRUE
       IN  (Val(r.finished_on) - r.started_on) + SumOfIntervals(rows \ {r})

SqlSum(rows) == IF rows = {} THEN NULL ELSE Some(SumOfIntervals(rows))

\* JavaScript truthiness of a column value: null and 0 are falsy.
Truthy(x) == ~IsNull(x) /\ Val(x) # 0

\* calculateTotalTime that counts an open entry up to the current time.
calculateTotalTime_RunningClock(taskId) ==
  LET total_time == SqlSum({[r EXCEPT !.finished_on =
                               IF IsNull(r.finished_on) THEN Some(now) ELSE r.finished_on] :
                              r \in {e \in work_entries : SqlEq(e.task_id, taskId)}})
  IN  IF Truthy(total_time) THEN JsNumber(Val(total_time)) ELSE JsNumber(0)

\* calculateTotalTime whose WHERE clause has lost the task_id condition.
calculateTotalTime_AllTasks(taskId) ==
  LET total_time == SqlSum({r \in work_entries : ~IsNull(r.finished_on)})
  IN  IF Truthy(total_time) THEN JsNumber(Val(total_time)) ELSE JsNumber(0)

\* SELECT SUM(finished_on - started_on) AS total_time FROM work_entries
\* WHERE task_id = ${taskId} AND finished_on IS NOT NULL, then total_time if
\* it is truthy, else 0.  The aggregate always yields one row.
calculateTotalTime(taskId) ==
  LET total_time == SqlSum({r \in work_entries :
                              SqlEq(r.task_id, taskId) /\ ~IsNull(r.finished_on)})
  IN  IF Truthy(total_time) THEN JsNumber(Val(total_time)) ELSE JsNumber(0)

Do_findCurrentWorkEntry(taskId) ==
  /\ \E v \in findCurrentWorkEntry(taskId) : last' = Call("findCurrentWorkEntry", taskId, v)
  /\ UNCHANGED <<tasks, work_entries, tasks_id_seq, work_entries_id_seq, now>>

Do_calculateTotalTime(taskId) ==
  /\ last' = Call("calculateTotalTime", taskId, calculateTotalTime(taskId))
  /\ UNCHANGED <<tasks, work_entries, tasks_id_seq, work_entries_id_seq, now>>

\* A database clock that can also be set back.
Tick_EitherWay ==
  /\ \/ now < MaxTime /\ now' = now + 1
     \/ now > 0 /\ now' = now - 1
  /\ UNCHANGED <<tasks, work_entries, tasks_id_seq, work_entries_id_seq, last>>

\* The database clock moves on between statements.
Tick ==
  /\ now < MaxTime
  /\ now' = now + 1
  /\ UNCHANGED <<tasks, work_entries, tasks_id_seq, work_entries_id_seq, last>>

Next ==
  \/ \E id \in TaskIdArgs : completeById(id)
  \/ \E name \in NameArgs : create(name)
  \/ Do_findAllNonCompletedTasks
  \/ \E id \in TaskIdArgs : Do_findById(id)
  \/ \E taskId \in TaskIdArgs : createWorkEntry(taskId)
  \/ \E taskId \in TaskIdArgs : Do_findCurrentWorkEntry(taskId)
  \/ \E id \in EntryIdArgs : finishWorkEntry(id)
  \/ \E taskId \in TaskIdArgs : Do_calculateTotalTime(taskId)
  \/ Tick

Spec == Init /\ [][Next]_vars

(***************************************************************************)
(* Callers that keep to the alternation the services rely on:              *)
(* createWorkEntry(t) only when t has no open entry, finishWorkEntry only  *)
(* on an entry that is open.                                               *)
(***************************************************************************)
OpenEntries(taskId) ==
  {r \in work_entries : SqlEq(r.task_id, taskId) /\ IsNull(r.finished_on)}

createWorkEntry_Alternating(taskId) ==
  /\ ~IsNull(taskId)
  /\ OpenEntries(taskId) = {}
  /\ createWorkEntry(taskId)

finishWorkEntry_Alternating(id) ==
  /\ \E r \in work_entries :
       SqlEq(Some(r.id), id) /\ ~IsNull(r.task_id) /\ IsNull(r.finished_on)
  /\ finishWorkEntry(id)

NextAlternating ==
  \/ \E id \in TaskIdArgs : completeById(id)
  \/ \E name \in NameArgs : create(name)
  \/ Do_findAllNonCompletedTasks
  \/ \E id \in TaskIdArgs : Do_findById(id)
  \/ \E taskId \in TaskIdArgs : createWorkEntry_Alternating(taskId)
  \/ \E taskId \in TaskIdArgs : Do_findCurrentWorkEntry(taskId)
  \/ \E id \in EntryIdArgs : finishWorkEntry_Alternating(id)
  \/ \E taskId \in TaskIdArgs : Do_calculateTotalTime(taskId)
  \/ Tick

SpecAlternating == Init /\ [][NextAlternating]_vars

(***************************************************************************)
(* The SQL client failing: the connection is lost while a call awaits its  *)
(* statement.  The call rejects with the client's error; the statement     *)
(* either never ran or ran with its reply lost.                            *)
(***************************************************************************)
ConnectionError(op, arg) == Call(op, arg, JsThrow("connection_failure"))

\* The statement of the call never ran (or was a SELECT).
StatementNotRun(op, arg) ==
  /\ last' = ConnectionError(op, arg)
  /\ UNCHANGED <<tasks, work_entries, tasks_id_seq, work_entries_id_seq, now>>

ReplyLost_completeById(id) ==
  /\ tasks' = {IF SqlEq(Some(r.id), id) THEN [r EXCEPT !.completed = TRUE] ELSE r : r \in tasks}
  /\ last' = ConnectionError("completeById", id)
  /\ UNCHANGED <<work_entries, tasks_id_seq, work_entries_id_seq, now>>

ReplyLost_create(name) ==
  /\ tasks_id_seq <= MaxTaskId
  /\ tasks_id_seq' = tasks_id_seq + 1
  /\ tasks' = IF TasksNotNullOk(name)
                THEN tasks \cup {NewTaskRow(tasks_id_seq, Val(name))} ELSE tasks
  /\ last' = ConnectionError("create", name)
  /\ UNCHANGED <<work_entries, work_entries_id_seq, now>>

ReplyLost_createWorkEntry(taskId) ==
  /\ work_entries_id_seq <= MaxEntryId
  /\ work_entries_id_seq' = work_entries_id_seq + 1
  /\ work_entries' = IF WorkEntriesFkOk(taskId)
                       THEN work_entries \cup {NewWorkEntryRow(work_entries_id_seq, taskId, now)}
                       ELSE work_entries
  /\ last' = ConnectionError("createWorkEntry", taskId)
  /\ UNCHANGED <<tasks, tasks_id_seq, now>>

ReplyLost_finishWorkEntry(id) ==
  /\ work_entries' = {IF SqlEq(Some(r.id), id) THEN [r EXCEPT !.finished_on = Some(now)] ELSE r :
                        r \in work_entries}
  /\ last' = ConnectionError("finishWorkEntry", id)
  /\ UNCHANGED <<tasks, tasks_id_seq, work_entries_id_seq, now>>

ConnectionFailure ==
  \/ \E id \in TaskIdArgs : StatementNotRun("completeById", id)
  \/ \E name \in NameArgs : StatementNotRun("create", name)
  \/ StatementNotRun("findAllNonCompletedTasks", NULL)
  \/ \E id \in TaskIdArgs : StatementNotRun("findById", id)
  \/ \E taskId \in TaskIdArgs : StatementNotRun("createWorkEntry", taskId)
  \/ \E taskId \in TaskIdArgs : StatementNotRun("findCurrentWorkEntry", taskId)
  \/ \E id \in EntryIdArgs : StatementNotRun("finishWorkEntry", id)
  \/ \E taskId \in TaskIdArgs : StatementNotRun("calculateTotalTime", taskId)
  \/ \E id \in TaskIdArgs : ReplyLost_completeById(id)
  \/ \E name \in NameArgs : ReplyLost_create(name)
  \/ \E taskId \in TaskIdArgs : ReplyLost_createWorkEntry(taskId)
  \/ \E id \in EntryIdArgs : ReplyLost_finishWorkEntry(id)

\* Every call of Next, and every way a call can fail.  The clock stands
\* still: no outcome of a failing call depends on the time.
NextFailing ==
  \/ \E id \in TaskIdArgs : completeById(id)
  \/ \E name \in NameArgs : create(name)
  \/ Do_findAllNonCompletedTasks
  \/ \E id \in TaskIdArgs : Do_findById(id)
  \/ \E taskId \in TaskIdArgs : createWorkEntry(taskId)
  \/ \E taskId \in TaskIdArgs : Do_findCurrentWorkEntry(taskId)
  \/ \E id \in EntryIdArgs : finishWorkEntry(id)
  \/ \E taskId \in TaskIdArgs : Do_calculateTotalTime(taskId)
  \/ ConnectionFailure

SpecFailing == Init /\ [][NextFailing]_vars

(***************************************************************************)
(* Callers that finish entries a second time.  The run starts after        *)
(* create("X"), createWorkEntry(1), createWorkEntry(1), finishWorkEntry(1) *)
(* and finishWorkEntry(2) at time 0, and from then on finishWorkEntry is   *)
(* called only on entries that are already closed.                         *)
(***************************************************************************)
InitRefinish ==
  /\ tasks = {NewTaskRow(1, "X")}
  /\ work_entries = {[NewWorkEntryRow(1, Some(1), 0) EXCEPT !.finished_on = Some(0)],
                     [NewWorkEntryRow(2, Some(1), 0) EXCEPT !.finished_on = Some(0)]}
  /\ tasks_id_seq = 2
  /\ work_entries_id_seq = 3
  /\ now = 0
  /\ last = Call("finishWorkEntry", Some(2), JsUndefined)

finishWorkEntry_Again(id) ==
  /\ \E r \in work_entries : SqlEq(Some(r.id), id) /\ ~IsNull(r.finished_on)
  /\ finishWorkEntry(id)

NextRefinish ==
  \/ \E id \in TaskIdArgs : completeById(id)
  \/ \E name \in NameArgs : create(name)
  \/ Do_findAllNonCompletedTasks
  \/ \E id \in TaskIdArgs : Do_findById(id)
  \/ \E taskId \in TaskIdArgs : Do_findCurrentWorkEntry(taskId)
  \/ \E id \in EntryIdArgs : finishWorkEntry_Again(id)
  \/ \E taskId \in TaskIdArgs : Do_calculateTotalTime(taskId)
  \/ Tick

SpecRefinish == InitRefinish /\ [][NextRefinish]_vars

(***************************************************************************)
(* Properties                                                              *)
(***************************************************************************)
Returned(op) == last.op = op /\ last.ret.t # "throw"
TaskExists(id) == \E r \in tasks : SqlEq(Some(r.id), id)
EntryExists(id) == \E r \in work_entries : SqlEq(Some(r.id), id)

\* C1: once create(X) has returned, findAllNonCompletedTasks() holds a row
\* with name X and completed = false.
C1_CreatedTaskIsListed ==
  Returned("create") =>
    /\ findAllNonCompletedTasks.t = "array"
    /\ \E r \in findAllNonCompletedTasks.v : r.name = Val(last.arg) /\ r.completed = FALSE

\* create("") has returned while the only other task named "" is completed, so
\* the listed row is the new one.
C1_Witness ==
  /\ Returned("create")
  /\ last.arg = Some("")
  /\ \E r \in tasks : r.name = "" /\ r.completed
  /\ Cardinality({r \in tasks : r.name = ""}) = 2

\* C2: once completeById(id) has returned for an existing task, that task is
\* not in findAllNonCompletedTasks(), and a task that is not listed is not
\* listed after any further step.
C2_CompletedTaskStaysUnlisted ==
  /\ [](Returned("completeById") =>
          \A r \in findAllNonCompletedTasks.v : ~SqlEq(Some(r.id), last.arg))
  /\ [][\A r \in tasks :
          r \notin findAllNonCompletedTasks.v =>
            \A q \in findAllNonCompletedTasks.v' : q.id # r.id]_vars

\* completeById(id) has returned for an existing task while another task is
\* still listed.
C2_Witness ==
  /\ Returned("completeById")
  /\ TaskExists(last.arg)
  /\ findAllNonCompletedTasks.v # {}

\* C3: findById(id) for an id that matches no task returns the object
\* { id: 0, name: "Unknown" } and does not throw.
C3_FindByIdSentinel ==
  (last.op = "findById" /\ ~TaskExists(last.arg)) =>
    /\ last.ret.t = "object"
    /\ last.ret.v = [id |-> 0, name |-> "Unknown"]

\* findById has returned for an id no task has, with tasks in the table.
C3_Witness ==
  /\ last.op = "findById"
  /\ ~IsNull(last.arg)
  /\ ~TaskExists(last.arg)
  /\ tasks # {}

\* C4: once createWorkEntry(t) has returned for an existing task t, every value
\* findCurrentWorkEntry(t) can return is a row of t with finished_on null; and
\* the step inserts exactly one row, whose started_on is the clock's reading.
C4_CreatedEntryIsCurrent ==
  /\ []((Returned("createWorkEntry") /\ TaskExists(last.arg)) =>
          \A v \in findCurrentWorkEntry(last.arg) :
            /\ v.t = "object"
            /\ SqlEq(v.v.task_id, last.arg)
            /\ IsNull(v.v.finished_on))
  /\ [][\A taskId \in TaskIdArgs :
          (TaskExists(taskId) /\ createWorkEntry(taskId)) =>
            \E r \in work_entries' :
              /\ r \notin work_entries
              /\ work_entries' = work_entries \cup {r}
              /\ r.task_id = taskId
              /\ r.started_on = now
              /\ IsNull(r.finished_on)]_vars

\* createWorkEntry(t) has returned after the clock moved, for a task that
\* already has a closed entry.
C4_Witness ==
  /\ Returned("createWorkEntry")
  /\ TaskExists(last.arg)
  /\ \E r \in work_entries : SqlEq(r.task_id, last.arg) /\ ~IsNull(r.finished_on)
  /\ \E r \in work_entries :
       SqlEq(r.task_id, last.arg) /\ IsNull(r.finished_on) /\ r.started_on > 0

\* C5 as stated: once finishWorkEntry(id) has returned for an entry of task t,
\* findCurrentWorkEntry(t) returns false.
C5_FinishedThenNoCurrent ==
  last.op = "finishWorkEntry" =>
    \A r \in work_entries :
      (SqlEq(Some(r.id), last.arg) /\ ~IsNull(r.task_id)) =>
        \A v \in findCurrentWorkEntry(r.task_id) : v.t = "boolean"

\* C5 (amended): once finishWorkEntry(id) has returned for an entry of task t,
\* findCurrentWorkEntry(t) never returns that entry, and it returns false
\* exactly when t has no other open entry.
C5_FinishedEntryNotCurrent ==
  last.op = "finishWorkEntry" =>
    \A r \in work_entries :
      (SqlEq(Some(r.id), last.arg) /\ ~IsNull(r.task_id)) =>
        \A v \in findCurrentWorkEntry(r.task_id) :
          /\ v.t = "object" => v.v.id # r.id
          /\ v.t = "boolean" <=>
               ~\E q \in work_entries :
                  q.id # r.id /\ SqlEq(q.task_id, r.task_id) /\ IsNull(q.finished_on)

\* finishWorkEntry(id) has returned for an entry of a task that has another
\* entry still open.
C5_Witness ==
  /\ last.op = "finishWorkEntry"
  /\ \E r \in work_entries :
       /\ SqlEq(Some(r.id), last.arg)
       /\ ~IsNull(r.finished_on)
       /\ \E q \in work_entries :
            q.id # r.id /\ SqlEq(q.task_id, r.task_id) /\ IsNull(q.finished_on)

\* finished_on - started_on of the closed entries of a task, summed over the
\* entry ids 1..n.
RECURSIVE ClosedTime(_, _)
ClosedTime(taskId, n) ==
  IF n = 0 THEN 0
  ELSE LET S == {r \in work_entries :
                   r.id = n /\ SqlEq(r.task_id, taskId) /\ ~IsNull(r.finished_on)}
       IN  ClosedTime(taskId, n - 1) +
             (IF S = {} THEN 0
              ELSE LET r == CHOOSE x \in S : TRUE IN Val(r.finished_on) - r.started_on)

\* C6: calculateTotalTime(t) is the sum of finished_on - started_on over the
\* closed entries of t and nothing else, 0 when t has no closed entry, and
\* T1 - T0 when t's only entry ran from T0 to T1.
C6_TotalTimeIsSumOfClosed ==
  \A taskId \in TaskIdArgs :
    LET ret == calculateTotalTime(taskId)
        mine == {r \in work_entries : SqlEq(r.task_id, taskId)}
    IN  /\ ret.t = "number"
        /\ ret.v = ClosedTime(taskId, work_entries_id_seq - 1)
        /\ (\A r \in mine : IsNull(r.finished_on)) => ret.v = 0
        /\ \A r \in mine :
             (mine = {r} /\ ~IsNull(r.finished_on)) =>
               ret.v = Val(r.finished_on) - r.started_on

\* calculateTotalTime(t) has returned a positive total while another task has
\* a closed entry of positive length too.
C6_Witness ==
  /\ last.op = "calculateTotalTime"
  /\ last.ret.v > 0
  /\ \E r \in work_entries :
       /\ ~IsNull(r.task_id) /\ ~SqlEq(r.task_id, last.arg)
       /\ ~IsNull(r.finished_on) /\ Val(r.finished_on) > r.started_on

\* C7: createWorkEntry(t) for an existing task succeeds whatever entries t has
\* and adds one open entry, so a second call with no finishWorkEntry between
\* leaves t with two open entries.
C7_SecondOpenEntryAccepted ==
  [][\A taskId \in TaskIdArgs :
       (TaskExists(taskId) /\ createWorkEntry(taskId)) =>
         /\ last'.ret.t = "undefined"
         /\ Cardinality(OpenEntries(taskId))' = Cardinality(OpenEntries(taskId)) + 1]_vars

\* Two createWorkEntry(t) calls have returned and t has two open entries.
C7_Witness ==
  /\ Returned("createWorkEntry")
  /\ TaskExists(last.arg)
  /\ Cardinality(OpenEntries(last.arg)) = 2

\* C8: with callers that alternate, every task has at most one open entry.
C8_AtMostOneOpenEntry ==
  \A taskId \in TaskIdArgs : Cardinality(OpenEntries(taskId)) <= 1

\* A task has been through create, finish, create: one closed entry and one
\* open entry.
C8_Witness ==
  /\ Returned("createWorkEntry")
  /\ Cardinality(OpenEntries(last.arg)) = 1
  /\ \E r \in work_entries : SqlEq(r.task_id, last.arg) /\ ~IsNull(r.finished_on)

\* C9: completeById(id) for an id no task has returns normally and leaves both
\* tables as they were.
C9_CompleteUnknownIdIsNoOp ==
  [][\A id \in TaskIdArgs :
       (~TaskExists(id) /\ completeById(id)) =>
         /\ tables' = tables
         /\ last'.ret.t = "undefined"]_vars

\* completeById has returned for an id no task has, with a task still not
\* completed and a work entry in the tables.
C9_Witness ==
  /\ last.op = "completeById"
  /\ ~IsNull(last.arg)
  /\ ~TaskExists(last.arg)
  /\ \E r \in tasks : ~r.completed
  /\ work_entries # {}

\* C10: finishWorkEntry(id) for an id no work entry has returns normally and
\* leaves both tables as they were.
C10_FinishUnknownIdIsNoOp ==
  [][\A id \in EntryIdArgs :
       (~EntryExists(id) /\ finishWorkEntry(id)) =>
         /\ tables' = tables
         /\ last'.ret.t = "undefined"]_vars

\* finishWorkEntry has returned for an id no work entry has, with an open entry
\* in the table.
C10_Witness ==
  /\ last.op = "finishWorkEntry"
  /\ ~IsNull(last.arg)
  /\ ~EntryExists(last.arg)
  /\ \E r \in work_entries : IsNull(r.finished_on)
\* C11: no step deletes a task row or changes its id or name, and completed
\* only goes from false to true: a completed task stays completed.
C11_TaskRowsOnlyGetCompleted ==
  [][\A r \in tasks :
       \E q \in tasks' :
         /\ q.id = r.id
         /\ q.name = r.name
         /\ r.completed => q.completed
         /\ q = r \/ (~r.completed /\ q = [r EXCEPT !.completed = TRUE])]_vars

\* completeById has returned for task 1, which is completed and kept, while
\* task 2, created with the last id, is not completed.
C11_Witness ==
  /\ Returned("completeById")
  /\ tasks_id_seq > MaxTaskId
  /\ \E r \in tasks : r.completed /\ SqlEq(Some(r.id), last.arg) /\ r.id = 1
  /\ \E r \in tasks : ~r.completed /\ r.id = 2
\* C12: every work entry's task_id is null or the id of a task; and
\* createWorkEntry(taskId) for a non-null taskId no task has throws the
\* database's foreign-key violation and inserts no row.
C12_TaskIdReferencesTask ==
  /\ [](\A e \in work_entries :
          e.task_id = NULL \/ \E r \in tasks : r.id = e.task_id[1])
  /\ [][\A taskId \in TaskIdArgs :
          (taskId # NULL /\ ~TaskExists(taskId) /\ createWorkEntry(taskId)) =>
            /\ last'.ret.t = "throw"
            /\ last'.ret.v = "foreign_key_violation"
            /\ tables' = tables]_vars

\* createWorkEntry has thrown for an id no task has, with a task and work
\* entries (one of them without a task) in the tables.
C12_Witness ==
  /\ last.op = "createWorkEntry"
  /\ last.ret.t = "throw"
  /\ tasks # {}
  /\ \E e \in work_entries : IsNull(e.task_id)
\* C13: for a task id t, findCurrentWorkEntry(t) returns false exactly when no
\* work entry of t has finished_on null, and otherwise a row of work_entries
\* with task_id = t and finished_on null; the call that returned last did so.
C13_CurrentEntryOrFalse ==
  /\ \A i \in 1..MaxTaskId :
       LET open == \E e \in work_entries : e.task_id = <<i>> /\ e.finished_on = <<>>
       IN  \A v \in findCurrentWorkEntry(Some(i)) :
             /\ v.t \in {"boolean", "object"}
             /\ v.t = "boolean" <=> ~open
             /\ v.t = "boolean" => v.v = FALSE
             /\ v.t = "object" =>
                  v.v \in work_entries /\ v.v.task_id = <<i>> /\ v.v.finished_on = <<>>
  /\ (last.op = "findCurrentWorkEntry" /\ ~IsNull(last.arg)) =>
       /\ last.ret \in findCurrentWorkEntry(last.arg)
       /\ last.ret.t = "object" =>
            last.ret.v.task_id = last.arg /\ last.ret.v.finished_on = <<>>

\* findCurrentWorkEntry(t) has returned the open entry of a task that also has
\* a closed entry.
C13_Witness ==
  /\ last.op = "findCurrentWorkEntry"
  /\ last.ret.t = "object"
  /\ \E e \in work_entries :
       e.id # last.ret.v.id /\ SqlEq(e.task_id, last.arg) /\ ~IsNull(e.finished_on)
\* C14: findById(id) for the id of a task returns that task's row as it is now
\* (its id is the argument), never the placeholder.
C14_FindByIdReturnsTheRow ==
  /\ \A r \in tasks :
       /\ findById(<<r.id>>).t = "object"
       /\ findById(<<r.id>>).v = r
  /\ (last.op = "findById" /\ TaskExists(last.arg)) =>
       /\ last.ret.t = "object"
       /\ last.ret.v \in tasks
       /\ last.ret.v.id = last.arg[1]
       /\ last.ret.v.id # 0

\* findById has returned the row of a completed task while another task is in
\* the table.
C14_Witness ==
  /\ last.op = "findById"
  /\ last.ret.t = "object"
  /\ last.ret.v \in tasks
  /\ last.ret.v.completed
  /\ Cardinality(tasks) = 2
\* C15: create(name) for any non-null name, the empty string and a name in use
\* included, adds exactly one row, with a fresh id, that name and completed =
\* false, changes no other task row and no work entry, and returns undefined.
C15_CreateInsertsOneRow ==
  [][\A name \in NameArgs :
       (name # NULL /\ create(name)) =>
         /\ \E r \in tasks' :
              /\ \A q \in tasks : q.id # r.id
              /\ tasks' = tasks \cup {r}
              /\ r.name = name[1]
              /\ r.completed = FALSE
         /\ Cardinality(tasks') = Cardinality(tasks) + 1
         /\ work_entries' = work_entries
         /\ last'.ret = JsUndefined]_vars

\* create("X") has returned with a second, still uncompleted task of that name
\* and a work entry in the tables.
C15_Witness ==
  /\ Returned("create")
  /\ last.arg = Some("X")
  /\ Cardinality({r \in tasks : r.name = "X" /\ ~r.completed}) = 2
  /\ work_entries # {}
\* C16: findAllNonCompletedTasks() returns exactly the task rows whose
\* completed flag is false: each of them, and no completed task.
C16_ListIsTheUncompletedTasks ==
  /\ findAllNonCompletedTasks.t = "array"
  /\ \A r \in findAllNonCompletedTasks.v : r \in tasks /\ ~r.completed
  /\ \A r \in tasks : ~r.completed => r \in findAllNonCompletedTasks.v
  /\ last.op = "findAllNonCompletedTasks" =>
       /\ last.ret.t = "array"
       /\ \A r \in tasks : r \in last.ret.v <=> ~r.completed

\* findAllNonCompletedTasks() has returned one of two tasks, the other being
\* completed.
C16_Witness ==
  /\ last.op = "findAllNonCompletedTasks"
  /\ Cardinality(last.ret.v) = 1
  /\ Cardinality(tasks) = 2
\* C17 as stated: a call that ends with an error of the SQL client leaves the
\* database, tables and sequences, as it was before the call.
C17_ErrorLeavesDatabaseAsItWas ==
  [][last'.ret.t = "throw" =>
       UNCHANGED <<tasks, work_entries, tasks_id_seq, work_entries_id_seq>>]_vars

\* C17 (amended): a call whose statement the database rejects throws that
\* constraint violation, a call that loses its connection throws the client's
\* error, and nothing is returned in place of either; after a constraint
\* violation both tables are as before and the id sequence of the table has
\* moved on by one.
C17_ErrorsPropagate ==
  [][/\ \A name \in NameArgs :
          (~TasksNotNullOk(name) /\ create(name)) =>
            /\ last'.ret = JsThrow("not_null_violation")
            /\ tables' = tables
            /\ tasks_id_seq' = tasks_id_seq + 1
     /\ \A taskId \in TaskIdArgs :
          (~WorkEntriesFkOk(taskId) /\ createWorkEntry(taskId)) =>
            /\ last'.ret = JsThrow("foreign_key_violation")
            /\ tables' = tables
            /\ work_entries_id_seq' = work_entries_id_seq + 1
     /\ (last'.ret.t = "throw" /\ last'.ret.v # "connection_failure") =>
          tables' = tables
     /\ last'.ret.t # "throw" =>
          (last'.op = "create" => TasksNotNullOk(last'.arg)) /\
          (last'.op = "createWorkEntry" => WorkEntriesFkOk(last'.arg))]_vars

\* create(null) has thrown the NOT NULL violation with rows in both tables.
C17_Witness ==
  /\ last.op = "create"
  /\ last.ret.t = "throw"
  /\ last.ret.v = "not_null_violation"
  /\ tasks # {}
  /\ work_entries # {}
\* C19: finishWorkEntry has no guard on the entry's state.  Called on an
\* entry that is already closed, it sets finished_on to the current time;
\* when that time is later than the old finished_on the old row is gone (a
\* second call is not a no-op) and calculateTotalTime of the entry's task has
\* grown by the difference.
C19_RefinishOverwrites ==
  [][\A id \in EntryIdArgs : \A r \in work_entries :
       (SqlEq(Some(r.id), id) /\ ~IsNull(r.finished_on) /\ finishWorkEntry(id)) =>
         /\ [r EXCEPT !.finished_on = Some(now)] \in work_entries'
         /\ Val(r.finished_on) < now =>
              /\ r \notin work_entries'
              /\ ~IsNull(r.task_id) =>
                   /\ calculateTotalTime(r.task_id)'.v =
                        calculateTotalTime(r.task_id).v + (now - Val(r.finished_on))
                   /\ calculateTotalTime(r.task_id)'.v > calculateTotalTime(r.task_id).v]_vars

\* calculateTotalTime(1) has returned 3: entry 1, closed at time 0 at the
\* start, now has finished_on 1, and entry 2 has finished_on 2.
C19_Witness ==
  /\ Returned("calculateTotalTime")
  /\ last.arg = Some(1)
  /\ last.ret = JsNumber(3)
  /\ \E r \in work_entries : r.id = 1 /\ r.started_on = 0 /\ r.finished_on = Some(1)
  /\ \E r \in work_entries : r.id = 2 /\ r.started_on = 0 /\ r.finished_on = Some(2)
\* C20: the clock never goes back, so in every reachable state every closed
\* work entry has finished_on >= started_on, and calculateTotalTime(t) is a
\* number that is never negative, for every task id t (null included).
C20_ClosedEntriesRunForward ==
  /\ \A r \in work_entries :
       /\ r.started_on <= now
       /\ ~IsNull(r.finished_on) =>
            Val(r.finished_on) >= r.started_on /\ Val(r.finished_on) <= now
  /\ \A taskId \in TaskIdArgs :
       calculateTotalTime(taskId).t = "number" /\ calculateTotalTime(taskId).v >= 0

\* calculateTotalTime(1) has returned 1 for a task with an entry started after
\* time 0 and closed at the time it started, and an entry closed later than it
\* started.
C20_Witness ==
  /\ Returned("calculateTotalTime")
  /\ last.arg = Some(1)
  /\ last.ret = JsNumber(1)
  /\ \E r \in work_entries :
       SqlEq(r.task_id, Some(1)) /\ r.started_on = 1 /\ r.finished_on = Some(1)
  /\ \E r \in work_entries :
       SqlEq(r.task_id, Some(1)) /\ r.started_on = 1 /\ r.finished_on = Some(2)
\* C21: a work entry only moves from open to closed.  Across every step each
\* stored entry is still stored with the same id, task_id and started_on, and
\* an entry whose finished_on is set still has it set: no operation deletes
\* an entry, moves it to another task or time, or reopens it.
C21_EntriesOnlyClose ==
  [][\A r \in work_entries :
       \E q \in work_entries' :
         /\ q.id = r.id
         /\ q.task_id = r.task_id
         /\ q.started_on = r.started_on
         /\ ~IsNull(r.finished_on) => ~IsNull(q.finished_on)]_vars

\* Entry 1 was closed at time 0; the clock has since moved on and
\* createWorkEntry has returned with entry 2 started at time 2, and entry 1 is
\* as it was.
C21_Witness ==
  /\ Returned("createWorkEntry")
  /\ now = 2
  /\ \E r \in work_entries :
       r.id = 1 /\ r.task_id = Some(1) /\ r.started_on = 0 /\ r.finished_on = Some(0)
  /\ \E r \in work_entries : r.id = 2 /\ r.started_on = 2 /\ IsNull(r.finished_on)
  /\ \E t \in tasks : t.id = 1 /\ t.completed
\* C22: the clock never goes back, so no step of any operation makes
\* calculateTotalTime(t) smaller, for every task id t: closing an entry adds
\* an interval that is not negative and finishing a closed entry again only
\* lengthens its interval.  (calculateTotalTime reads work_entries only, so a
\* step that leaves the table alone leaves every total alone.)
C22_TotalTimeNeverDecreases ==
  [][work_entries' # work_entries =>
       \A taskId \in TaskIdArgs :
         calculateTotalTime(taskId)'.v >= calculateTotalTime(taskId).v]_vars

\* finishWorkEntry(2) has returned at time 2: task 1 has entry 1 closed from 0
\* to 1 and entry 2 closed from 1 to 2, and its total time has grown to 2.
C22_Witness ==
  /\ Returned("finishWorkEntry")
  /\ last.arg = Some(2)
  /\ now = 2
  /\ \E r \in work_entries :
       r.id = 1 /\ r.task_id = Some(1) /\ r.started_on = 0 /\ r.finished_on = Some(1)
  /\ \E r \in work_entries :
       r.id = 2 /\ r.task_id = Some(1) /\ r.started_on = 1 /\ r.finished_on = Some(2)
  /\ calculateTotalTime(Some(1)) = JsNumber(2)
\* C23: completeById touches only the tasks table: work_entries and both id
\* sequences are as before, so the open entries of the completed task stay
\* open.  createWorkEntry(t) for a task t that is already completed returns
\* normally and adds one new open entry of t started at the current time.
C23_CompletedTaskStillTakesEntries ==
  [][/\ \A id \in TaskIdArgs :
          completeById(id) =>
            /\ work_entries' = work_entries
            /\ work_entries_id_seq' = work_entries_id_seq
            /\ tasks_id_seq' = tasks_id_seq
            /\ OpenEntries(id)' = OpenEntries(id)
     /\ \A taskId \in TaskIdArgs :
          ((\E t \in tasks : SqlEq(Some(t.id), taskId) /\ t.completed)
             /\ createWorkEntry(taskId)) =>
            /\ last'.ret = JsUndefined
            /\ NewWorkEntryRow(work_entries_id_seq, taskId, now) \notin work_entries
            /\ work_entries' =
                 work_entries \cup {NewWorkEntryRow(work_entries_id_seq, taskId, now)}
            /\ tasks' = tasks]_vars

\* Task 1 is completed and has two open entries: one started at time 0 and
\* one that createWorkEntry(1), the call that has just returned, started at
\* time 1.
C23_Witness ==
  /\ Returned("createWorkEntry")
  /\ last.arg = Some(1)
  /\ now = 1
  /\ \E t \in tasks : t.id = 1 /\ t.completed
  /\ \E r \in work_entries :
       r.id = 1 /\ r.task_id = Some(1) /\ r.started_on = 0 /\ IsNull(r.finished_on)
  /\ \E r \in work_entries :
       r.id = 2 /\ r.task_id = Some(1) /\ r.started_on = 1 /\ IsNull(r.finished_on)
\* C24: finishWorkEntry(id) changes only finished_on of the entry with that
\* id: that entry keeps its other fields, every other entry and every task row
\* is as before, and no row is added or removed.  createWorkEntry changes no
\* entry that is already stored and no task row.
C24_WritesTouchOnlyTheirRow ==
  [][/\ \A id \in EntryIdArgs :
          finishWorkEntry(id) =>
            /\ tasks' = tasks
            /\ tasks_id_seq' = tasks_id_seq
            /\ work_entries_id_seq' = work_entries_id_seq
            /\ Cardinality(work_entries') = Cardinality(work_entries)
            /\ \A r \in work_entries :
                 IF SqlEq(Some(r.id), id)
                   THEN [r EXCEPT !.finished_on = Some(now)] \in work_entries'
                   ELSE r \in work_entries'
     /\ \A taskId \in TaskIdArgs :
          createWorkEntry(taskId) =>
            /\ tasks' = tasks
            /\ tasks_id_seq' = tasks_id_seq
            /\ work_entries \subseteq work_entries'
            /\ \A r \in work_entries' \ work_entries : r.id = work_entries_id_seq]_vars

\* finishWorkEntry(1) has returned at time 1 and closed entry 1 of task 1,
\* while entry 2 of the same task, started at time 0, is still open and task
\* 1 is not completed.
C24_Witness ==
  /\ Returned("finishWorkEntry")
  /\ last.arg = Some(1)
  /\ \E t \in tasks : t.id = 1 /\ ~t.completed
  /\ \E r \in work_entries :
       r.id = 1 /\ r.task_id = Some(1) /\ r.started_on = 0 /\ r.finished_on = Some(1)
  /\ \E r \in work_entries :
       r.id = 2 /\ r.task_id = Some(1) /\ r.started_on = 0 /\ IsNull(r.finished_on)
\* C25: the four queries leave both tables (and the id sequences) as they
\* are, and a query called again with the same argument, with no write in
\* between, returns what it returned before: the same array of rows up to
\* their order for findAllNonCompletedTasks, the same row for findById, the
\* same number for calculateTotalTime.  findCurrentWorkEntry selects the same
\* rows again; what it returns is the first of them, so it returns the same
\* value whenever the task has at most one open entry, and otherwise one of
\* the same open entries.
C25_QueriesReadOnlyAndRepeatable ==
  [][/\ (\/ last'.op = "findAllNonCompletedTasks" /\ Do_findAllNonCompletedTasks
         \/ last'.op = "findById" /\ Do_findById(last'.arg)
         \/ last'.op = "findCurrentWorkEntry" /\ Do_findCurrentWorkEntry(last'.arg)
         \/ last'.op = "calculateTotalTime" /\ Do_calculateTotalTime(last'.arg)) =>
          /\ tables' = tables
          /\ tasks_id_seq' = tasks_id_seq
          /\ work_entries_id_seq' = work_entries_id_seq
     /\ (Returned("findAllNonCompletedTasks") /\ Do_findAllNonCompletedTasks) =>
          last'.ret = last.ret
     /\ (Returned("findById") /\ Do_findById(last.arg)) =>
          last'.ret = last.ret
     /\ (Returned("calculateTotalTime") /\ Do_calculateTotalTime(last.arg)) =>
          last'.ret = last.ret
     /\ (Returned("findCurrentWorkEntry") /\ Do_findCurrentWorkEntry(last.arg)) =>
          /\ findCurrentWorkEntry(last.arg)' = findCurrentWorkEntry(last.arg)
          /\ last.ret \in findCurrentWorkEntry(last.arg)
          /\ last'.ret \in findCurrentWorkEntry(last.arg)
          /\ Cardinality(OpenEntries(last.arg)) <= 1 => last'.ret = last.ret]_vars

\* calculateTotalTime(1) has returned 1 at time 2, after the clock moved on
\* from the last write: task 1 has a closed entry and an entry that is still
\* open, and a task is completed, so every query has rows to select and rows
\* to leave out.
C25_Witness ==
  /\ Returned("calculateTotalTime")
  /\ last.arg = Some(1)
  /\ last.ret = JsNumber(1)
  /\ now = 2
  /\ \E r \in work_entries :
       r.task_id = Some(1) /\ r.started_on = 0 /\ r.finished_on = Some(1)
  /\ \E r \in work_entries :
       r.task_id = Some(1) /\ r.started_on = 1 /\ IsNull(r.finished_on)
  /\ \E t \in tasks : t.completed
  /\ \E t \in tasks : ~t.completed
\* C26: in every reachable state the ids of the stored tasks are pairwise
\* distinct, at least 1 and below the next value of the sequence; so no task
\* has id 0, and for every requested id (0 and null included) the row that
\* findById returns has id 0 exactly when no task with that id exists.
C26_TaskIdsDistinctAndPositive ==
  /\ \A t \in tasks : t.id >= 1 /\ t.id < tasks_id_seq
  /\ \A t, u \in tasks : t.id = u.id => t = u
  /\ \A id \in TaskIdArgs \cup {Some(0)} :
       /\ findById(id).t = "object"
       /\ findById(id).v.id = 0 <=> ~TaskExists(id)
       /\ TaskExists(id) => findById(id).v.id = Val(id)

\* findById(2) has returned the row with id 0: task 1 exists, and id 2 was
\* drawn from the sequence by an INSERT that was rejected, so no task has it.
C26_Witness ==
  /\ Returned("findById")
  /\ last.arg = Some(2)
  /\ last.ret.v.id = 0
  /\ tasks_id_seq = 3
  /\ \E t \in tasks : t.id = 1
  /\ ~TaskExists(Some(2))
\* C27: completeById is idempotent and commutes with itself.  A step of
\* completeById(id) applies the UPDATE to tasks and touches nothing else; on
\* the tasks table of every reachable state, applying the UPDATE for the same
\* id twice gives what applying it once gives, and applying it for a then b
\* gives what b then a gives, for all ids a and b (null and unknown ids
\* included).  A call that directly follows a call with the same id leaves
\* both tables as they are.
C27_CompleteByIdIdempotentCommutes ==
  /\ [](\A a, b \in TaskIdArgs :
          /\ completeByIdUpdate(completeByIdUpdate(tasks, a), a) = completeByIdUpdate(tasks, a)
          /\ completeByIdUpdate(completeByIdUpdate(tasks, a), b) =
               completeByIdUpdate(completeByIdUpdate(tasks, b), a))
  /\ [][/\ \A id \in TaskIdArgs :
             completeById(id) =>
               /\ tasks' = completeByIdUpdate(tasks, id)
               /\ UNCHANGED <<work_entries, tasks_id_seq, work_entries_id_seq, now>>
        /\ (Returned("completeById") /\ completeById(last.arg)) => tables' = tables]_vars

\* completeById(2) has returned and tasks 1 and 2 are both completed: two
\* calls with different ids have acted, in one order or the other.
C27_Witness ==
  /\ Returned("completeById")
  /\ last.arg = Some(2)
  /\ Cardinality(tasks) = 2
  /\ \A t \in tasks : t.completed
  /\ work_entries # {}
====
